---- MODULE Spec2Model ----
(***************************************************************************)
(* The trading loops of TraderGPT: auto_trade (moving average crossover,   *)
(* src/auto_trader.py) and predictive_trade (trend, src/predictive_trader  *)
(* .py), with the order client place_market_order and the signed price     *)
(* fetch fetch_price they share.                                           *)
(*                                                                         *)
(* One behaviour is one run of one loop.  The network (the market's        *)
(* prices, a failing GET, a failing POST) is the nondeterminism.  Prices   *)
(* are whole dollars; a moving average is kept exactly, scaled by          *)
(* short_window * long_window, so that comparing two averages is the       *)
(* comparison of the exact means.                                          *)
(***************************************************************************)
EXTENDS Integers, Sequences, FiniteSets, TLC

\* ------------------------------------------------------------------ bounds
MaxPrice == 2
MaxWindow == 3
MaxIter == 4
MaxFail == 1
MaxExecPrice == 400
MaxUsd == 5
MaxAccount == 4

\* ------------------------------------------------------- program constants
None == -1
SeedSize == 32
DefaultUsd == 5
DefaultShort == 3
DefaultLong == 7
TestWindow == 3
QuantityUnits == 100000000
symbol == "BTC-USD"

PriceSet == 1..MaxPrice
\* The prices and amounts of the calls of place_market_order made outside
\* the loops.
ExecPrices == 1..MaxExecPrice
CallAmounts == 1..MaxUsd
UsdAmounts == {0, DefaultUsd}

\* The price sequences of the two unit tests (side_effect of the patched
\* fetch_price).
ScenarioA == <<10, 10, 10, 10, 10, 10, 10, 11, 12, 13, 12, 11, 10, 9, 8>>
ScenarioB == <<10, 10, 10, 11, 12, 13, 12, 11, 10>>

VARIABLES
    strategy,      \* "crossover" (auto_trade) or "trend" (predictive_trade)
    short_window,  \* auto_trade parameter
    long_window,   \* auto_trade parameter
    window,        \* predictive_trade parameter
    usd_amount,    \* parameter of both loops
    iterations,    \* parameter of both loops, None = run indefinitely
    seed_len,      \* byte length of the decoded PRIVATE_KEY_BASE64, None = unset
    feed,          \* prices the market is scripted to deliver first
    prices,        \* the loop's price history
    prev_short,    \* auto_trade local
    prev_long,     \* auto_trade local
    holding,       \* the loop's position: TRUE = Long, FALSE = Flat
    counter,       \* completed cycles
    pc,            \* "fetch", "order", "except", "done"
    side,          \* side of the order the cycle is about to place
    calls,         \* log of the place_market_order calls made
    sleeps,        \* number of time.sleep(interval) calls made
    attempts,      \* number of loop-level fetch_price calls made (cycles begun)
    capped,        \* the same loop keeping only the samples its strategy reads
    proxy          \* the Flask proxy (src/app.py): one request and its answer

vars == <<strategy, short_window, long_window, window, usd_amount, iterations,
          seed_len, feed, prices, prev_short, prev_long, holding, counter, pc,
          side, calls, sleeps, attempts, capped, proxy>>

params == <<strategy, short_window, long_window, window, usd_amount,
            iterations, seed_len>>

\* ----------------------------------------------------------------- helpers
RECURSIVE Sum(_)
Sum(s) == IF s = << >> THEN 0 ELSE Head(s) + Sum(Tail(s))

\* Python's s[-n:] for n >= 1.
Suffix(s, n) ==
    LET k == IF n > Len(s) THEN Len(s) ELSE n
    IN  SubSeq(s, Len(s) - k + 1, Len(s))

\* statistics.mean of a window, times Scale (exact: the window's length
\* divides Scale).
Scale == short_window * long_window
Mean(s) == (Sum(s) * Scale) \div Len(s)

ShortMA(ps) == Mean(Suffix(ps, short_window))
LongMA(ps) == Mean(Suffix(ps, long_window))

\* SigningKey(base64.b64decode(PRIVATE_KEY_BASE64)) succeeds only on a seed
\* of exactly SeedSize bytes; b64decode(None) raises.
SeedValid == seed_len = SeedSize

FetchErrors == attempts - Len(prices)
OrderErrors == Cardinality({i \in 1..Len(calls) : ~calls[i].ok})
Failures == FetchErrors + OrderErrors

Last(s) == s[Len(s)]

\* --------------------------------------------------------- signal engines
\* auto_trade's two conditions, on the current and the previous pair of
\* moving averages and the position.
\* Mutant of BuySignal: a tie of the previous pair does not arm the signal.
BuySignal_StrictPrev(short_ma, long_ma, ps, pl, h) ==
    short_ma > long_ma /\ ps < pl /\ ~h

\* Mutant of BuySignal: a tie of the current pair fires the signal.
BuySignal_Tie(short_ma, long_ma, ps, pl, h) ==
    short_ma >= long_ma /\ ps <= pl /\ ~h

BuySignal(short_ma, long_ma, ps, pl, h) ==
    short_ma > long_ma /\ ps <= pl /\ ~h

\* Mutant of SellSignal: a tie of the current pair fires the signal.
SellSignal_Tie(short_ma, long_ma, ps, pl, h) ==
    short_ma <= long_ma /\ ps >= pl /\ h

SellSignal(short_ma, long_ma, ps, pl, h) ==
    short_ma < long_ma /\ ps >= pl /\ h

\* The order auto_trade decides on with history ps: "buy", "sell" or "none".
CrossoverSignal(ps, pshort, plong, h) ==
    IF Len(ps) >= long_window /\ pshort # None /\ plong # None
    THEN IF BuySignal(ShortMA(ps), LongMA(ps), pshort, plong, h) THEN "buy"
         ELSE IF SellSignal(ShortMA(ps), LongMA(ps), pshort, plong, h) THEN "sell"
         ELSE "none"
    ELSE "none"

\* Mutant of predict_trend: the reference is the sample before the window.
predict_trend_OffByOne(ps, w) ==
    IF Len(ps) <= w THEN 0
    ELSE LET first == ps[Len(ps) - w]
             last == ps[Len(ps)]
         IN  IF last > first THEN 1
             ELSE IF last < first THEN -1
             ELSE 0

predict_trend(ps, w) ==
    IF Len(ps) < w THEN 0
    ELSE LET first == ps[Len(ps) - w + 1]
             last == ps[Len(ps)]
         IN  IF last > first THEN 1
             ELSE IF last < first THEN -1
             ELSE 0

\* Mutant of TrendSignal: the position does not gate the signal.
TrendSignal_Ungated(ps, h) ==
    LET direction == predict_trend(ps, window)
    IN  IF direction > 0 THEN "buy"
        ELSE IF direction < 0 THEN "sell"
        ELSE "none"

\* The order predictive_trade decides on with history ps.
TrendSignal(ps, h) ==
    LET direction == predict_trend(ps, window)
    IN  IF direction > 0 /\ ~h THEN "buy"
        ELSE IF direction < 0 /\ h THEN "sell"
        ELSE "none"

\* ------------------------------------------------------------ the network
\* What a loop-level fetch_price can return: the scripted feed first, then
\* whatever the market quotes.
NextPrices == IF feed # << >> THEN {Head(feed)} ELSE PriceSet

\* Mutant of uuid4: the id is made once and used for every order.
uuid4_Cached ==
    LET ids == {calls[i].client_order_id : i \in 1..Len(calls)} \ {None}
    IN  IF ids = {} THEN 1 ELSE CHOOSE id \in ids : TRUE

\* uuid.uuid4(): a value no earlier call returned (the chance of two random
\* 122-bit values meeting is left out); ids are numbered as issued.
uuid4 == 1 + Cardinality({i \in 1..Len(calls) : calls[i].client_order_id # None})

\* Mutant of AssetQuantity: the digits after the eighth are cut off.
AssetQuantity_Truncated(usd, price) == (usd * QuantityUnits) \div price

\* f"{usd_amount / price:.8f}" in units of 1e-8: the quotient rounded to the
\* nearest unit, a tie to the even one.
AssetQuantity(usd, price) ==
    LET n == usd * QuantityUnits
        q == n \div price
        r == n % price
    IN  IF 2 * r > price THEN q + 1
        ELSE IF 2 * r < price THEN q
        ELSE IF q % 2 = 0 THEN q ELSE q + 1

\* Mutant of OrderOutcomes: the order is sized with the price the cycle
\* fetched, and posted even when the second fetch failed.
OrderOutcomes_CyclePrice(sym, sd, usd, quotes) ==
    {[symbol |-> sym, side |-> sd, usd_amount |-> usd, price |-> p,
      client_order_id |-> uuid4,
      asset_quantity |-> AssetQuantity(usd, Last(prices)),
      requests |-> <<"GET", "POST">>, cycle |-> attempts, slept |-> sleeps,
      posted |-> TRUE, ok |-> o] : p \in quotes \cup {None}, o \in BOOLEAN}

\* The outcomes of place_market_order(sym, sd, usd) on a market quoting the
\* prices quotes: its own fetch_price raises (no body is built, nothing is
\* posted), or it returns price p, the body is built with a new id and the
\* quantity usd / p, the order is posted and the POST succeeds or raises.
\* requests are the HTTP requests the call made, in order; cycle and slept
\* are the loop's cycle and the sleeps made when the call began.
OrderOutcomes(sym, sd, usd, quotes) ==
    {[symbol |-> sym, side |-> sd, usd_amount |-> usd, price |-> None,
      client_order_id |-> None, asset_quantity |-> None,
      requests |-> <<"GET">>, cycle |-> attempts, slept |-> sleeps,
      posted |-> FALSE, ok |-> FALSE]}
    \cup
    {[symbol |-> sym, side |-> sd, usd_amount |-> usd, price |-> p,
      client_order_id |-> uuid4,
      asset_quantity |-> AssetQuantity(usd, p),
      requests |-> <<"GET", "POST">>, cycle |-> attempts, slept |-> sleeps,
      posted |-> TRUE, ok |-> o] : p \in quotes, o \in BOOLEAN}

\* place_market_order as the loops call it.
place_market_order(sym, sd, usd) == OrderOutcomes(sym, sd, usd, PriceSet)

\* ------------------------------------------------------------- loop steps
\* holding after place_market_order(sd) returned: the assignment that
\* follows the call.
HoldingAfterOrder(sd) == sd = "buy"

\* Mutant of HoldingAfterFailedOrder: the position is moved before the call.
HoldingAfterFailedOrder_Early(sd, h) == sd = "buy"

\* holding (h before the call) after place_market_order(sd) raised: the
\* assignment after the call is skipped.
HoldingAfterFailedOrder(sd, h) == h

\* Mutant of PrevPairAfter: the pair is never stored.
PrevPairAfter_Stale(ps, old) == old

\* (prev_short, prev_long) after a cycle of auto_trade that ran to its end
\* with history ps, old being the pair before it.
PrevPairAfter(ps, old) ==
    IF Len(ps) >= long_window THEN <<ShortMA(ps), LongMA(ps)>> ELSE old

\* counter += 1; break when the bound is reached, else time.sleep(interval).
EndOfCycle ==
    /\ counter' = counter + 1
    /\ IF iterations # None /\ counter + 1 >= iterations
       THEN pc' = "done" /\ sleeps' = sleeps
       ELSE pc' = "fetch" /\ sleeps' = sleeps + 1

\* An unbounded loop is followed for MaxIter completed cycles.
MayFetch == pc = "fetch" /\ (iterations = None => counter < MaxIter)

\* fetch_price(symbol) raises (signing fails, or the GET fails): control goes
\* to the except clause.
fetch_failed ==
    /\ MayFetch
    /\ Failures < MaxFail
    /\ attempts' = attempts + 1
    /\ pc' = "except"
    /\ UNCHANGED <<params, feed, prices, prev_short, prev_long, holding,
                   counter, side, calls, sleeps>>

\* Mutant of except_handler: the exception is logged and raised again.
except_handler_Reraise ==
    /\ pc = "except"
    /\ pc' = "done"
    /\ UNCHANGED <<params, feed, prices, prev_short, prev_long, holding,
                   counter, side, calls, attempts, sleeps>>

\* except Exception: logging.error(...); time.sleep(interval); next cycle.
except_handler ==
    /\ pc = "except"
    /\ sleeps' = sleeps + 1
    /\ pc' = "fetch"
    /\ UNCHANGED <<params, feed, prices, prev_short, prev_long, holding,
                   counter, side, calls, attempts>>

\* auto_trade: the price is fetched and appended, the averages evaluated.
\* Without an actionable signal the cycle ends here; with one, the order
\* is placed next.
auto_trade_cycle(p) ==
    /\ MayFetch /\ strategy = "crossover" /\ SeedValid
    /\ p \in NextPrices
    /\ attempts' = attempts + 1
    /\ prices' = Append(prices, p)
    /\ feed' = IF feed # << >> THEN Tail(feed) ELSE feed
    /\ LET ps == Append(prices, p)
           sig == CrossoverSignal(ps, prev_short, prev_long, holding)
       IN  IF sig # "none"
           THEN /\ pc' = "order"
                /\ side' = sig
                /\ UNCHANGED <<prev_short, prev_long, counter, sleeps>>
           ELSE /\ prev_short' = PrevPairAfter(ps, <<prev_short, prev_long>>)[1]
                /\ prev_long' = PrevPairAfter(ps, <<prev_short, prev_long>>)[2]
                /\ side' = side
                /\ EndOfCycle
    /\ UNCHANGED <<params, holding, calls>>

\* auto_trade: place_market_order(symbol, side, usd_amount), then the
\* position, the previous pair and the counter; an exception skips them all.
auto_trade_order ==
    /\ pc = "order" /\ strategy = "crossover"
    /\ \E r \in place_market_order(symbol, side, usd_amount) :
        /\ (~r.ok => Failures < MaxFail)
        /\ calls' = Append(calls, r)
        /\ IF r.ok
           THEN /\ holding' = HoldingAfterOrder(side)
                /\ prev_short' = PrevPairAfter(prices, <<prev_short, prev_long>>)[1]
                /\ prev_long' = PrevPairAfter(prices, <<prev_short, prev_long>>)[2]
                /\ EndOfCycle
           ELSE /\ holding' = HoldingAfterFailedOrder(side, holding)
                /\ pc' = "except"
                /\ UNCHANGED <<prev_short, prev_long, counter, sleeps>>
    /\ UNCHANGED <<params, feed, prices, side, attempts>>

\* predictive_trade: the price is fetched and appended, the trend predicted.
predictive_trade_cycle(p) ==
    /\ MayFetch /\ strategy = "trend" /\ SeedValid
    /\ p \in NextPrices
    /\ attempts' = attempts + 1
    /\ prices' = Append(prices, p)
    /\ feed' = IF feed # << >> THEN Tail(feed) ELSE feed
    /\ LET sig == TrendSignal(Append(prices, p), holding)
       IN  IF sig # "none"
           THEN /\ pc' = "order"
                /\ side' = sig
                /\ UNCHANGED <<counter, sleeps>>
           ELSE /\ side' = side
                /\ EndOfCycle
    /\ UNCHANGED <<params, prev_short, prev_long, holding, calls>>

\* predictive_trade: place_market_order, then the position and the counter.
predictive_trade_order ==
    /\ pc = "order" /\ strategy = "trend"
    /\ \E r \in place_market_order(symbol, side, usd_amount) :
        /\ (~r.ok => Failures < MaxFail)
        /\ calls' = Append(calls, r)
        /\ IF r.ok
           THEN /\ holding' = HoldingAfterOrder(side)
                /\ EndOfCycle
           ELSE /\ holding' = HoldingAfterFailedOrder(side, holding)
                /\ pc' = "except"
                /\ UNCHANGED <<counter, sleeps>>
    /\ UNCHANGED <<params, feed, prices, prev_short, prev_long, side, attempts>>

\* --------------------------------------------------- the capped history
\* The loop of the specification's data model, which keeps the most recent
\* long_window samples (crossover) or window samples (trend) instead of the
\* whole history, run beside the loop of the code on the same prices and the
\* same order outcomes.
CapSize == IF strategy = "crossover" THEN long_window ELSE window
Cap(s) == Suffix(s, CapSize)

CappedEntry ==
    [prices |-> << >>, prev_short |-> None, prev_long |-> None,
     holding |-> FALSE, side |-> "none", submitted |-> << >>]

\* The order the capped loop decides on with its history ps.
CappedSignal(ps) ==
    IF strategy = "crossover"
    THEN CrossoverSignal(ps, capped.prev_short, capped.prev_long, capped.holding)
    ELSE TrendSignal(ps, capped.holding)

\* The capped loop's pair of averages after a cycle that ran to its end.
CappedPair(ps) ==
    IF strategy = "crossover"
    THEN PrevPairAfter(ps, <<capped.prev_short, capped.prev_long>>)
    ELSE <<capped.prev_short, capped.prev_long>>

\* What the capped loop does while the loop of the code takes a step: on a
\* fetched price it appends, drops the oldest sample beyond CapSize and
\* decides; on the outcome of place_market_order it moves its position and
\* pair as the code does; submitted lists its submissions as (cycle, side).
capped_loop ==
    IF Len(prices') = Len(prices) + 1
    THEN LET ps == Cap(Append(capped.prices, Last(prices')))
             sig == CappedSignal(ps)
         IN  capped' =
                IF sig # "none"
                THEN [capped EXCEPT !.prices = ps, !.side = sig,
                                    !.submitted = Append(@, <<attempts', sig>>)]
                ELSE [capped EXCEPT !.prices = ps, !.side = "none",
                                    !.prev_short = CappedPair(ps)[1],
                                    !.prev_long = CappedPair(ps)[2]]
    ELSE IF Len(calls') = Len(calls) + 1 /\ capped.side # "none"
    THEN capped' =
            IF Last(calls').ok
            THEN [capped EXCEPT !.holding = HoldingAfterOrder(capped.side),
                                !.prev_short = CappedPair(capped.prices)[1],
                                !.prev_long = CappedPair(capped.prices)[2],
                                !.side = "none"]
            ELSE [capped EXCEPT !.holding = HoldingAfterFailedOrder(capped.side, @),
                                !.side = "none"]
    ELSE capped' = capped

\* ------------------------------------------------------------ the proxy
AccountsPath == "/api/v1/crypto/trading/accounts/"

\* The JSON bodies the broker may answer with.
AccountBodies == [account : 1..MaxAccount, buying_power : 0..MaxAccount]

\* What the broker does with a GET: answers 2xx with a JSON body, answers
\* with an error status, or cannot be reached.
Upstreams == [kind : {"ok", "http_error", "unreachable"}, json : AccountBodies]

ProxyIdle ==
    [state |-> "idle", upstream |-> [kind |-> "ok", json |-> [account |-> 1, buying_power |-> 0]],
     gets |-> << >>, response |-> [status |-> None, json |-> None]]

\* GET /proxy/fetch_account (src/app.py): the headers are signed before the
\* try, so a key that cannot be loaded ends the handler with Flask's own 500
\* and no request to the broker; else one GET of the accounts path, answered
\* with the broker's JSON, or with 500 and an error body on a
\* RequestException.
fetch_account ==
    /\ proxy.state = "request"
    /\ proxy' =
        IF ~SeedValid
        THEN [proxy EXCEPT !.state = "answered",
                           !.response = [status |-> 500, json |-> None]]
        ELSE IF proxy.upstream.kind = "ok"
        THEN [proxy EXCEPT !.state = "answered",
                           !.gets = Append(@, AccountsPath),
                           !.response = [status |-> 200, json |-> proxy.upstream.json]]
        ELSE [proxy EXCEPT !.state = "answered",
                           !.gets = Append(@, AccountsPath),
                           !.response = [status |-> 500,
                                         json |-> [error |-> "Failed to fetch account details"]]]
    /\ UNCHANGED <<params, feed, prices, prev_short, prev_long, holding,
                   counter, pc, side, calls, sleeps, attempts, capped>>

\* ------------------------------------------------------------------- runs
\* The state at entry of the loop: the parameters of the call (usd_amount
\* among usds) and the environment's key, then the locals as initialised.
Entry(usds) ==
    /\ \/ /\ strategy = "crossover"
          /\ window = TestWindow
          /\ \/ /\ short_window \in 1..MaxWindow
                /\ long_window \in (short_window + 1)..MaxWindow
                /\ feed = << >>
                /\ iterations \in (1..MaxIter) \cup {None}
                /\ usd_amount \in usds
             \/ /\ short_window = DefaultShort
                /\ long_window = DefaultLong
                /\ feed = ScenarioA
                /\ iterations = Len(ScenarioA)
                /\ usd_amount = DefaultUsd
       \/ /\ strategy = "trend"
          /\ short_window = DefaultShort
          /\ long_window = DefaultLong
          /\ \/ /\ window \in 1..MaxWindow
                /\ feed = << >>
                /\ iterations \in (1..MaxIter) \cup {None}
                /\ usd_amount \in usds
             \/ /\ window = TestWindow
                /\ feed = ScenarioB
                /\ iterations = Len(ScenarioB)
                /\ usd_amount = DefaultUsd
    /\ seed_len \in {None, SeedSize - 1, SeedSize}
    /\ prices = << >>
    /\ prev_short = None
    /\ prev_long = None
    /\ holding = FALSE
    /\ counter = 0
    /\ pc = "fetch"
    /\ side = "none"
    /\ calls = << >>
    /\ sleeps = 0
    /\ attempts = 0

\* Beside a loop: the capped loop at its entry, the proxy serving nothing.
Beside == capped = CappedEntry /\ proxy = ProxyIdle

\* Beside each step of a loop: the capped loop's step.
Alongside == capped_loop /\ UNCHANGED proxy

\* Runs that trade the default amount.
Init == Entry({DefaultUsd}) /\ Beside

\* Runs with any amount a caller may pass, zero included.
InitAnyAmount == Entry(UsdAmounts) /\ Beside

\* place_market_order(symbol, side, usd_amount) called on its own, by a
\* script that imports it: the call is about to be made.
InitOrder ==
    /\ strategy = "none"
    /\ short_window = DefaultShort
    /\ long_window = DefaultLong
    /\ window = TestWindow
    /\ usd_amount \in CallAmounts
    /\ iterations = None
    /\ seed_len = SeedSize
    /\ feed = << >>
    /\ prices = << >>
    /\ prev_short = None
    /\ prev_long = None
    /\ holding = FALSE
    /\ counter = 0
    /\ pc = "call"
    /\ side \in {"buy", "sell"}
    /\ calls = << >>
    /\ sleeps = 0
    /\ attempts = 0
    /\ Beside

\* The proxy has received GET /proxy/fetch_account; the environment's key
\* and the broker's behaviour are any.
InitProxy ==
    /\ strategy = "none"
    /\ short_window = DefaultShort
    /\ long_window = DefaultLong
    /\ window = TestWindow
    /\ usd_amount = DefaultUsd
    /\ iterations = None
    /\ seed_len \in {None, SeedSize - 1, SeedSize}
    /\ feed = << >>
    /\ prices = << >>
    /\ prev_short = None
    /\ prev_long = None
    /\ holding = FALSE
    /\ counter = 0
    /\ pc = "idle"
    /\ side = "none"
    /\ calls = << >>
    /\ sleeps = 0
    /\ attempts = 0
    /\ capped = CappedEntry
    /\ \E u \in Upstreams : proxy = [ProxyIdle EXCEPT !.state = "request", !.upstream = u]

\* The call returns or raises.
direct_order ==
    /\ pc = "call"
    /\ \E r \in OrderOutcomes(symbol, side, usd_amount, ExecPrices) :
        /\ calls' = Append(calls, r)
        /\ pc' = IF r.ok THEN "returned" ELSE "raised"
    /\ UNCHANGED <<params, feed, prices, prev_short, prev_long, holding,
                   counter, side, sleeps, attempts>>

Next ==
    \/ fetch_failed /\ Alongside
    \/ except_handler /\ Alongside
    \/ \E p \in PriceSet \cup {ScenarioA[i] : i \in 1..Len(ScenarioA)} :
            auto_trade_cycle(p) /\ Alongside
    \/ auto_trade_order /\ Alongside
    \/ \E p \in PriceSet \cup {ScenarioB[i] : i \in 1..Len(ScenarioB)} :
            predictive_trade_cycle(p) /\ Alongside
    \/ predictive_trade_order /\ Alongside

Spec == Init /\ [][Next]_vars

SpecAnyAmount == InitAnyAmount /\ [][Next]_vars

NextOrder == direct_order /\ Alongside

NextProxy == fetch_account

SpecProxy == InitProxy /\ [][NextProxy]_vars

SpecOrder == InitOrder /\ [][NextOrder]_vars

\* ------------------------------------------------------------- properties
Sides == {"buy", "sell"}
Opposite(sd) == IF sd = "buy" THEN "sell" ELSE "buy"

\* A step that makes a place_market_order call, and that call raised.
OrderFailedStep == Len(calls') = Len(calls) + 1 /\ ~Last(calls').ok
\* A step that makes a place_market_order call, and that call returned.
OrderReturnedStep == Len(calls') = Len(calls) + 1 /\ Last(calls').ok

\* C1 as stated: every pattern of failures included, the order submissions
\* alternate buy, sell, buy, ... starting with a buy: no two submissions of
\* the same side follow each other.
C1_SubmissionsAlternate ==
    /\ calls # << >> => calls[1].side = "buy"
    /\ \A i \in 1..(Len(calls) - 1) : calls[i + 1].side # calls[i].side

\* C1 amended: the first submission is a buy; a submission that returned is
\* followed by one of the other side, and two submissions of the same side
\* follow each other only when the earlier one failed; an order is only ever
\* about to be placed on the side the position allows (buy when Flat, sell
\* when Long).
C1_GatedSubmissions ==
    /\ calls # << >> => calls[1].side = "buy"
    /\ \A i \in 1..(Len(calls) - 1) :
        calls[i + 1].side = (IF calls[i].ok THEN Opposite(calls[i].side)
                             ELSE calls[i].side)
    /\ pc = "order" => side = (IF holding THEN "sell" ELSE "buy")

\* C1 witness: a buy that failed, the buy repeated, then the sell.
C1_Witness ==
    /\ Len(calls) = 3
    /\ calls[1].side = "buy" /\ ~calls[1].ok
    /\ calls[2].side = "buy" /\ calls[2].ok
    /\ calls[3].side = "sell"

\* C2: a cycle whose loop-level fetch_price raises submits no order and
\* leaves the history, the position and the previous pair of averages as
\* they were; the except clause then sleeps once and the loop fetches again,
\* the loop never ending on the exception.
C2_FetchFailureTolerated ==
    [][/\ (pc = "fetch" /\ attempts' = attempts + 1 /\ Len(prices') = Len(prices))
            => /\ pc' = "except"
               /\ UNCHANGED <<prices, holding, prev_short, prev_long, calls,
                              counter, sleeps>>
       /\ pc = "except"
            => /\ pc' = "fetch"
               /\ sleeps' = sleeps + 1
               /\ UNCHANGED <<prices, holding, prev_short, prev_long, calls,
                              counter, attempts>>]_vars

\* C2 witness: a run that lost one fetch while Long with a previous pair
\* set, and went on to its end.
C2_Witness ==
    /\ FetchErrors = 1 /\ OrderErrors = 0
    /\ strategy = "crossover" /\ holding /\ prev_short # None
    /\ pc = "done"

\* C3 as stated: a bounded loop stops after exactly N cycles begun, the
\* abandoned ones counted.
C3_AbandonedCyclesCount ==
    iterations # None =>
        /\ attempts <= iterations
        /\ pc = "done" => attempts = iterations

\* C4 as stated: when the submission of an actionable buy fails the position
\* is Long after it, and Flat when that of a sell fails.
C4_TransitionKeptOnFailure ==
    [][OrderFailedStep => holding' = (Last(calls').side = "buy")]_vars

\* C4 amended: when the submission of an actionable buy fails the position
\* is still Flat after it, and still Long when that of a sell fails; the
\* position changes only on a submission that returned.
C4_PositionUnchangedOnFailure ==
    [][/\ OrderFailedStep
            => holding' = holding /\ holding' = (Last(calls').side = "sell")
       /\ holding' # holding => OrderReturnedStep]_vars

\* C4 witness: the POST of a sell failed and the position is Long.
C4_Witness ==
    /\ pc = "except" /\ calls # << >>
    /\ Last(calls).side = "sell" /\ Last(calls).posted /\ ~Last(calls).ok
    /\ holding

\* The arguments of the place_market_order calls made, in order.
CallArgs == [i \in 1..Len(calls) |->
                <<calls[i].symbol, calls[i].side, calls[i].usd_amount>>]
TwoCalls == <<<<symbol, "buy", DefaultUsd>>, <<symbol, "sell", DefaultUsd>>>>

\* The reference of C5: scanning the cycles k, k+1, ... of the price sequence
\* s in order, h being the position before cycle k, a buy is emitted on a
\* cycle where the history is long enough, a previous pair exists (the cycle
\* before it was long enough too), the short average is above the long one,
\* was not above it the cycle before, and the position is Flat; a sell in
\* the mirrored case when Long.
RECURSIVE RefCrossover(_, _, _)
RefCrossover(s, k, h) ==
    IF k > Len(s) THEN << >>
    ELSE LET cur == SubSeq(s, 1, k)
             prv == SubSeq(s, 1, k - 1)
             has == k - 1 >= long_window
             buy == /\ has /\ ~h
                    /\ ShortMA(cur) > LongMA(cur)
                    /\ ShortMA(prv) <= LongMA(prv)
             sell == /\ has /\ h
                     /\ ShortMA(cur) < LongMA(cur)
                     /\ ShortMA(prv) >= LongMA(prv)
         IN  IF buy THEN <<<<symbol, "buy", usd_amount>>>> \o RefCrossover(s, k + 1, TRUE)
             ELSE IF sell THEN <<<<symbol, "sell", usd_amount>>>> \o RefCrossover(s, k + 1, FALSE)
             ELSE RefCrossover(s, k + 1, h)

\* C5: with every fetch and every order succeeding, the calls auto_trade has
\* made after any number of cycles are the reference list of the prices
\* fetched; the test's sequence with windows 3 and 7 yields a buy then a
\* sell of 5.0 and nothing else.
C5_CrossoverResult ==
    (strategy = "crossover" /\ pc \in {"fetch", "done"} /\ Failures = 0) =>
        /\ CallArgs = RefCrossover(prices, 1, FALSE)
        /\ (pc = "done" /\ prices = ScenarioA) => CallArgs = TwoCalls

\* C5 witness: the test's run is over, with its two orders placed.
C5_Witness ==
    /\ strategy = "crossover" /\ short_window = DefaultShort
    /\ long_window = DefaultLong /\ usd_amount = DefaultUsd
    /\ prices = ScenarioA /\ pc = "done" /\ Failures = 0
    /\ Len(calls) = 2

\* The reference of C6: a buy on a cycle k >= window whose sample is above
\* the sample window - 1 cycles earlier while Flat, a sell when it is below
\* while Long; the samples between the two are not read.
RECURSIVE RefTrend(_, _, _)
RefTrend(s, k, h) ==
    IF k > Len(s) THEN << >>
    ELSE LET has == k >= window
             buy == has /\ ~h /\ s[k] > s[k - window + 1]
             sell == has /\ h /\ s[k] < s[k - window + 1]
         IN  IF buy THEN <<<<symbol, "buy", usd_amount>>>> \o RefTrend(s, k + 1, TRUE)
             ELSE IF sell THEN <<<<symbol, "sell", usd_amount>>>> \o RefTrend(s, k + 1, FALSE)
             ELSE RefTrend(s, k + 1, h)

\* C6: with every fetch and every order succeeding, the calls predictive_trade
\* has made after any number of cycles are the reference list of the prices
\* fetched; the test's sequence with window 3 yields a buy then a sell of 5.0
\* and nothing else.
C6_TrendResult ==
    (strategy = "trend" /\ pc \in {"fetch", "done"} /\ Failures = 0) =>
        /\ CallArgs = RefTrend(prices, 1, FALSE)
        /\ (pc = "done" /\ prices = ScenarioB) => CallArgs = TwoCalls

\* C6 witness: the test's run is over, with its two orders placed.
C6_Witness ==
    /\ strategy = "trend" /\ window = TestWindow /\ usd_amount = DefaultUsd
    /\ prices = ScenarioB /\ pc = "done" /\ Failures = 0
    /\ Len(calls) = 2

\* A step of auto_trade that fetches a price with which the two averages
\* are evaluated and are equal.
TieStep ==
    /\ strategy = "crossover" /\ pc = "fetch"
    /\ Len(prices') = Len(prices) + 1
    /\ Len(prices') >= long_window
    /\ ShortMA(prices') = LongMA(prices')

\* C7: on a cycle of auto_trade whose short and long averages are equal no
\* order is placed and the position stays, whatever the previous pair and
\* the position.
C7_TieNeverTrades ==
    [][TieStep => pc' # "order" /\ calls' = calls /\ holding' = holding]_vars

\* C7 witness: a tie just evaluated while Long, the pair before it having
\* the short average above the long one.
C7_Witness ==
    /\ strategy = "crossover" /\ pc \in {"fetch", "done"} /\ holding
    /\ Len(prices) > long_window
    /\ ShortMA(prices) = LongMA(prices)
    /\ prev_short = ShortMA(prices) /\ prev_long = LongMA(prices)
    /\ ShortMA(SubSeq(prices, 1, Len(prices) - 1))
         > LongMA(SubSeq(prices, 1, Len(prices) - 1))

\* C8 as stated: between two cycles of auto_trade the previous pair is the
\* pair of averages of the last cycle that evaluated them, a cycle whose
\* order submission failed included.
C8_PrevIsLastEvaluated ==
    (strategy = "crossover" /\ pc # "order" /\ Len(prices) >= long_window) =>
        prev_short = ShortMA(prices) /\ prev_long = LongMA(prices)

\* C8 amended: a cycle of auto_trade that evaluates the averages and fires no
\* signal, or fires one whose order returns, leaves them as the previous
\* pair; a cycle whose order submission fails leaves the previous pair as it
\* was, and so do the except clause and the sleep.
C8_PrevPairUpdate ==
    [][strategy = "crossover" =>
        /\ (pc = "fetch" /\ Len(prices') = Len(prices) + 1
              /\ Len(prices') >= long_window /\ pc' # "order")
             => prev_short' = ShortMA(prices') /\ prev_long' = LongMA(prices')
        /\ OrderReturnedStep
             => prev_short' = ShortMA(prices') /\ prev_long' = LongMA(prices')
        /\ (OrderFailedStep \/ pc = "except" \/ pc' = "order" \/ pc' = "except")
             => UNCHANGED <<prev_short, prev_long>>]_vars

\* C8 witness: an order submission of auto_trade failed and the previous
\* pair is not the pair of that cycle.
C8_Witness ==
    /\ strategy = "crossover" /\ pc = "except"
    /\ calls # << >> /\ ~Last(calls).ok
    /\ prev_short # None
    /\ <<prev_short, prev_long>> # <<ShortMA(prices), LongMA(prices)>>

\* C9 as stated: with the key seed missing or not SeedSize bytes long the
\* loop never begins: no cycle, no fetch_price call, no sleep.
C9_NoLoopOnInvalidSeed ==
    ~SeedValid => attempts = 0 /\ sleeps = 0 /\ pc = "fetch"

\* C10 as stated: place_market_order with usd_amount <= 0 or a side that is
\* neither buy nor sell is rejected before the network: it fetches no
\* execution price, posts no order and does not return.
C10_ValidatedBeforeNetwork ==
    \A i \in 1..Len(calls) :
        (calls[i].usd_amount <= 0 \/ calls[i].side \notin Sides) =>
            ~calls[i].posted /\ ~calls[i].ok /\ calls[i].price = None

\* C11: every cycle makes at most one place_market_order call: any two calls
\* are made in different cycles with at least one interval sleep between
\* them, a repeated failed one included; every order posted carries an id,
\* and no two calls carry the same id.
C11_OneSubmissionPerCycle ==
    /\ \A i \in 1..Len(calls) :
        /\ calls[i].posted => calls[i].client_order_id # None
        /\ \A j \in (i + 1)..Len(calls) :
            /\ calls[i].cycle < calls[j].cycle
            /\ calls[i].slept < calls[j].slept
            /\ calls[i].client_order_id # None
                 => calls[j].client_order_id # calls[i].client_order_id
    /\ Len(calls) <= attempts

\* C11 witness: a buy whose POST failed was posted again in a later cycle.
C11_Witness ==
    /\ Len(calls) >= 2
    /\ calls[1].posted /\ ~calls[1].ok
    /\ calls[2].posted /\ calls[2].side = calls[1].side

\* |quantity * price - usd_amount| of a posted order, in units of 1e-8.
QuantityError(r) ==
    LET d == r.asset_quantity * r.price - r.usd_amount * QuantityUnits
    IN  IF d < 0 THEN 0 - d ELSE d
Sized(r) == r.posted /\ r.usd_amount > 0 /\ r.price > 0

\* C12 as stated: for every positive amount and price the quantity sent
\* satisfies |quantity * price - usd_amount| < 1e-6.
C12_RoundTrip ==
    \A i \in 1..Len(calls) :
        Sized(calls[i]) => QuantityError(calls[i]) < QuantityUnits \div 1000000

\* C12 amended: the quantity sent is within half a unit of the eighth decimal
\* of usd_amount / price, so |quantity * price - usd_amount| <= price * 0.5e-8;
\* that is below 1e-6 for every price below 200.
C12_RoundTripWithinHalfUnit ==
    \A i \in 1..Len(calls) :
        Sized(calls[i]) =>
            /\ 2 * QuantityError(calls[i]) <= calls[i].price
            /\ calls[i].price < 200
                 => QuantityError(calls[i]) < QuantityUnits \div 1000000

\* C12 witness: an order posted at a price of 200 or more whose round trip
\* is off by 1e-6 or more.
C12_Witness ==
    /\ calls # << >> /\ Sized(Last(calls))
    /\ Last(calls).price >= 200
    /\ QuantityError(Last(calls)) >= QuantityUnits \div 1000000

\* Every sample of ps is the same value.
Flat(ps) == \A i, j \in 1..Len(ps) : ps[i] = ps[j]

\* C13: while every price fetched so far is the same value, neither loop has
\* placed or is about to place an order, and the position is Flat.
C13_FlatNeverTrades ==
    Flat(prices) => calls = << >> /\ ~holding /\ pc # "order"

\* C13 witness: a crossover run over flat prices ended, the averages having
\* been evaluated with a previous pair.
C13_Witness ==
    /\ strategy = "crossover" /\ pc = "done"
    /\ Len(prices) > long_window /\ Flat(prices)
    /\ prev_short = prev_long /\ prev_short # None

\* C15: every call of place_market_order begins with its own GET of the
\* price, made after the cycle's fetch; an order is posted only after that
\* GET returned a price, with the quantity computed from that price; when
\* the GET fails nothing is posted.
C15_ExecutionPriceFetchedFirst ==
    \A i \in 1..Len(calls) :
        /\ calls[i].cycle >= 1 /\ calls[i].cycle <= attempts
        /\ calls[i].requests[1] = "GET"
        /\ calls[i].posted <=> calls[i].requests = <<"GET", "POST">>
        /\ calls[i].posted <=> calls[i].price # None
        /\ calls[i].posted =>
             calls[i].asset_quantity
                = AssetQuantity(calls[i].usd_amount, calls[i].price)
        /\ ~calls[i].posted => calls[i].requests = <<"GET">> /\ ~calls[i].ok

\* C15 witness: the cycle's order was posted at an execution price other
\* than the price the cycle fetched, and sized with a quantity other than
\* the cycle's price gives.
C15_Witness ==
    /\ calls # << >> /\ Last(calls).cycle = attempts /\ Last(calls).posted
    /\ Last(calls).price # Last(prices)
    /\ Last(calls).asset_quantity
         # AssetQuantity(Last(calls).usd_amount, Last(prices))

\* The calls of place_market_order that returned, in order.
Returned == SelectSeq(calls, LAMBDA r : r.ok)

\* C17: the position is Long exactly when the last order that returned was
\* a buy, Flat when none returned or the last was a sell; the orders that
\* returned alternate buy, sell, buy, ... from a buy.
C17_PositionTracksReturnedOrders ==
    /\ holding = (Returned # << >> /\ Last(Returned).side = "buy")
    /\ \A i \in 1..Len(Returned) :
        Returned[i].side = (IF i % 2 = 1 THEN "buy" ELSE "sell")

\* C17 witness: a buy returned, a sell failed, the sell was repeated and
\* returned: the position is Flat again.
C17_Witness ==
    /\ Len(calls) = 3 /\ Len(Returned) = 2
    /\ calls[1].ok /\ ~calls[2].ok /\ calls[2].side = "sell" /\ calls[3].ok
    /\ ~holding

\* The submissions of the loop of the code as (cycle, side), the one about
\* to be made included.
Submitted ==
    [i \in 1..Len(calls) |-> <<calls[i].cycle, calls[i].side>>]
    \o (IF pc = "order" THEN <<<<attempts, side>>>> ELSE << >>)

\* C16: in every state of either loop, under every pattern of fetch and
\* order failures, the loop that keeps only the most recent long_window
\* (crossover) or window (trend) samples has made the same submissions in
\* the same cycles and holds the same position as the loop of the code,
\* which keeps every sample.
C16_CappingPreservesBehaviour ==
    strategy \in {"crossover", "trend"} =>
        /\ capped.submitted = Submitted
        /\ capped.holding = holding
        /\ capped.prices = Cap(prices) /\ Len(capped.prices) <= CapSize

\* C16 witness: samples have been dropped from the capped history, and an
\* order decided after that returned.
C16_Witness ==
    /\ strategy \in {"crossover", "trend"}
    /\ Len(prices) > CapSize /\ capped.prices # prices
    /\ calls # << >> /\ Last(calls).cycle > CapSize /\ Last(calls).ok

\* C14 as stated: a GET of /proxy/fetch_account makes exactly one GET of the
\* broker's accounts path, and when the broker answers it the handler
\* answers 200 with the broker's JSON.
C14_ProxyFetchAccount ==
    proxy.state = "answered" =>
        /\ proxy.gets = <<AccountsPath>>
        /\ proxy.upstream.kind = "ok"
             => proxy.response = [status |-> 200, json |-> proxy.upstream.json]

====
